---- MODULE Spec2Model ----
(***************************************************************************)
(* A model of the tutorial documents of applied-machine-learning:          *)
(*   - the scikit-learn pipelines notebook (two cells, each evaluating a   *)
(*     Pipeline with cross_val_score over KFold(n_splits=10)),             *)
(*   - the word-embedding notebook (one_hot / Tokenizer / pad_sequences),  *)
(*   - the R markdown recipes and the TBPTT notebook, as cell sequences.   *)
(* Four specifications share the variables: SpecCV (cross validation),     *)
(* SpecText (text preparation), SpecGlove (the pre-trained GloVe example)  *)
(* and Spec (the documents run in kernels).                                *)
(***************************************************************************)
EXTENDS Integers, Sequences, FiniteSets, TLC

VARIABLES
    \* ---- cross validation (pipelines notebook) ----
    cvpc,       \* "load" | "split" | "print" | "done"
    pipeline,   \* which cell's pipeline is evaluated: "p1" | "p2"
    nrows,      \* rows of the loaded dataframe (0 before read_csv)
    fold,       \* number of folds already evaluated by cross_val_score
    fitted,     \* fold -> (step name -> rows that were input to its fit)
    applied,    \* fold -> (step name -> rows it transformed / scored)
    results,    \* sequence of per-fold scores <<correct, size>>
    printed,    \* <<>> or <<num, den>>: the printed results.mean()
    \* ---- text preparation (word-embedding notebook) ----
    example,      \* "learn" | "glove": which complete listing runs
    tpc,          \* "start" | "fitted" | "encoded" | "padded"
    hashOf,       \* word -> hash(word) of this Python process
    word_index,   \* t.word_index: word -> integer (<<>> before the fit)
    vocab_size,   \* vocab_size (0 before it is assigned)
    encoded_docs, \* encoded_docs (<<>> before it is assigned)
    padded_docs,  \* padded_docs (<<>> before it is assigned)
    \* ---- the documents run in kernels ----
    opened,     \* the documents opened in this session
    ns,         \* kernel -> names bound in it
    loaded,     \* kernel -> modules (R packages) loaded in it
    nextCell,   \* document -> index of its next code cell
    lastRun,    \* document -> its last run cell: the statements that ran,
                \* what was raised, what the run did outside the kernel
    disk,       \* the files the kernels share: the condition of the GloVe
                \* file and whether keras's configuration file is there
    disk0,      \* the files as the session found them
    \* ---- the pre-trained GloVe example after the text preparation ----
    gpc,              \* "idle" | "start" | "loaded" | "matrix" | "defined" |
                      \* "fitted" | "evaluated"
    glove,            \* the lines of glove.6B.100d.txt
    embeddings_index, \* embeddings_index: word -> coefficients
    embedding_matrix, \* embedding_matrix: row -> its columns (<<>> before)
    model,            \* model: the layers with their weights (<<>> before)
    epoch             \* epochs of model.fit done

cvvars == <<cvpc, pipeline, nrows, fold, fitted, applied, results, printed>>

textvars == <<example, tpc, hashOf, word_index, vocab_size, encoded_docs, padded_docs>>

runvars == <<opened, ns, loaded, nextCell, lastRun, disk, disk0>>

glovevars == <<gpc, glove, embeddings_index, embedding_matrix, model, epoch>>

vars == <<cvvars, textvars, runvars, glovevars>>

(***************************************************************************)
(* Bounds and program constants                                            *)
(***************************************************************************)
\* the dataset has n_splits .. n_splits + MaxExtraRows rows
MaxExtraRows == 3

\* the hash assignment differs from the recorded run's on at most MaxRehash words
MaxRehash == 1

\* the GloVe file has at most MaxGloveLines lines
MaxGloveLines == 2

\* a weight moves at most MaxWeight steps away from zero while the model is fitted
MaxWeight == 1

\* KFold(n_splits=10, ...)
n_splits == 10

(***************************************************************************)
(* Helpers                                                                 *)
(***************************************************************************)
RECURSIVE SumSeq(_)
SumSeq(s) == IF s = <<>> THEN 0 ELSE Head(s) + SumSeq(Tail(s))

RECURSIVE ProdSeq(_)
ProdSeq(s) == IF s = <<>> THEN 1 ELSE Head(s) * ProdSeq(Tail(s))

Range(s) == {s[i] : i \in DOMAIN s}

(***************************************************************************)
(* The specifications share the variables; each runs one part and the     *)
(* other parts' variables keep their idle values.                          *)
(***************************************************************************)
IdleCV ==
    /\ cvpc = "idle" /\ pipeline = "none" /\ nrows = 0 /\ fold = 0
    /\ fitted = <<>> /\ applied = <<>> /\ results = <<>> /\ printed = <<>>

IdleText ==
    /\ tpc = "idle" /\ example = "none" /\ hashOf = <<>> /\ word_index = <<>>
    /\ vocab_size = 0 /\ encoded_docs = <<>> /\ padded_docs = <<>>

IdleRun ==
    /\ opened = {} /\ ns = <<>> /\ loaded = <<>> /\ nextCell = <<>>
    /\ lastRun = <<>> /\ disk = <<>> /\ disk0 = <<>>

IdleGlove ==
    /\ gpc = "idle" /\ glove = <<>> /\ embeddings_index = <<>>
    /\ embedding_matrix = <<>> /\ model = <<>> /\ epoch = 0

(***************************************************************************)
(* KFold.split without shuffling: the first n % n_splits folds have        *)
(* n \div n_splits + 1 rows, the others n \div n_splits; the test rows of  *)
(* fold k are the next contiguous block, the training rows all the others. *)
(* Rows are 0 .. n-1, folds are 0 .. n_splits-1.                           *)
(***************************************************************************)
Rows(n) == 0 .. (n - 1)

FoldSizeNoRemainder(n, k) == n \div n_splits

FoldSize(n, k) == (n \div n_splits) + (IF k < n % n_splits THEN 1 ELSE 0)

RECURSIVE FoldStart(_, _)
FoldStart(n, k) == IF k = 0 THEN 0 ELSE FoldStart(n, k - 1) + FoldSize(n, k - 1)

TestRows(n, k) == FoldStart(n, k) .. (FoldStart(n, k) + FoldSize(n, k) - 1)

TrainRows(n, k) == {r \in Rows(n) : r \notin TestRows(n, k)}

(***************************************************************************)
(* The two pipelines.  A step is a record: name, kind ("transform" for a   *)
(* transformer, "union" for a FeatureUnion, "estimator" for the final      *)
(* model) and, for a union, the names of its parts.                        *)
(***************************************************************************)
Pipeline1 ==
    << [name |-> "standardize", kind |-> "transform", parts |-> {}],
       [name |-> "lda",         kind |-> "estimator", parts |-> {}] >>

Pipeline2 ==
    << [name |-> "feature_union", kind |-> "union",
        parts |-> {"pca", "select_best"}],
       [name |-> "logistic",      kind |-> "estimator", parts |-> {}] >>

Steps(p) == IF p = "p1" THEN Pipeline1 ELSE Pipeline2

\* every fitted component of a pipeline (a union fits each of its parts)
Components(p) ==
    UNION { IF st.kind = "union" THEN st.parts ELSE {st.name}
            : st \in Range(Steps(p)) }

\* Pipeline.fit(X[rows], y[rows]): every transformer is fit_transform-ed on
\* the rows handed to fit, the final estimator is fitted on their transform;
\* a FeatureUnion hands the same rows to each of its parts.
PipelineFitScalerOnAllRows(p, rows) ==
    [c \in Components(p) |-> IF c = "standardize" THEN Rows(nrows) ELSE rows]

PipelineFit(p, rows) == [c \in Components(p) |-> rows]

\* Pipeline.score(X[rows], y[rows]): every transformer transforms the rows,
\* the final estimator predicts and scores them.
PipelineScore(p, rows) == [c \in Components(p) |-> rows]

\* cross_val_score hands a clone of the estimator the training rows of the
\* fold to fit and the test rows of the fold to score.
FitRowsOfFoldWholeData(n, k) == Rows(n)

FitRowsOfFold(n, k) == TrainRows(n, k)

ScoreRowsOfFold(n, k) == TestRows(n, k)

(***************************************************************************)
(* results.mean() as an exact fraction <<num, den>> over the common        *)
(* denominator q * (q + 1), q the smaller fold size.                       *)
(***************************************************************************)
MeanOf(res) ==
    LET q == res[Len(res)][2]
        D == q * (q + 1)
    IN  << SumSeq([i \in DOMAIN res |-> res[i][1] * (D \div res[i][2])]),
           Len(res) * D >>

(***************************************************************************)
(* Cross validation: actions                                               *)
(***************************************************************************)
InitCV ==
    /\ IdleText
    /\ IdleRun
    /\ IdleGlove
    /\ cvpc = "load"
    /\ pipeline \in {"p1", "p2"}
    /\ nrows = 0
    /\ fold = 0
    /\ fitted = <<>>
    /\ applied = <<>>
    /\ results = <<>>
    /\ printed = <<>>

\* dataframe = read_csv(url, names=names); X = array[:,0:8]; Y = array[:,8]
LoadData ==
    /\ cvpc = "load"
    /\ \E n \in n_splits .. (n_splits + MaxExtraRows) : nrows' = n
    /\ cvpc' = "split"
    /\ UNCHANGED <<pipeline, fold, fitted, applied, results, printed>>
    /\ UNCHANGED <<textvars, runvars, glovevars>>

\* one iteration of cross_val_score: clone, fit on the fold's training rows,
\* score on the fold's test rows (accuracy: correct predictions / test rows)
CVFold ==
    /\ cvpc = "split"
    /\ fold < n_splits
    /\ LET test == ScoreRowsOfFold(nrows, fold)
       IN  /\ fitted' = Append(fitted, PipelineFit(pipeline, FitRowsOfFold(nrows, fold)))
           /\ applied' = Append(applied, PipelineScore(pipeline, test))
           /\ \E correct \in 0 .. Cardinality(test) :
                 results' = Append(results, <<correct, Cardinality(test)>>)
    /\ fold' = fold + 1
    /\ cvpc' = IF fold + 1 = n_splits THEN "print" ELSE "split"
    /\ UNCHANGED <<pipeline, nrows, printed>>
    /\ UNCHANGED <<textvars, runvars, glovevars>>

\* print(results.mean())
PrintMean ==
    /\ cvpc = "print"
    /\ printed' = MeanOf(results)
    /\ cvpc' = "done"
    /\ UNCHANGED <<pipeline, nrows, fold, fitted, applied, results>>
    /\ UNCHANGED <<textvars, runvars, glovevars>>

NextCV == LoadData \/ CVFold \/ PrintMean

SpecCV == InitCV /\ [][NextCV]_vars

(***************************************************************************)
(* Text preparation of the word-embedding notebook.                        *)
(* A text is a sequence of one-character strings; a word is a string.      *)
(***************************************************************************)
\* docs = ['Well done!', 'Good work', ..., 'Could have done better.']
docs ==
    <<
       << "W", "e", "l", "l", " ", "d", "o", "n", "e", "!" >>,
       << "G", "o", "o", "d", " ", "w", "o", "r", "k" >>,
       << "G", "r", "e", "a", "t", " ", "e", "f", "f", "o", "r", "t" >>,
       << "n", "i", "c", "e", " ", "w", "o", "r", "k" >>,
       << "E", "x", "c", "e", "l", "l", "e", "n", "t", "!" >>,
       << "W", "e", "a", "k" >>,
       << "P", "o", "o", "r", " ", "e", "f", "f", "o", "r", "t", "!" >>,
       << "n", "o", "t", " ", "g", "o", "o", "d" >>,
       << "p", "o", "o", "r", " ", "w", "o", "r", "k" >>,
       << "C", "o", "u", "l", "d", " ", "h", "a", "v", "e", " ", "d", "o", "n", "e", " ", "b", "e", "t", "t", "e", "r", "." >>
    >>

\* labels = array([1,1,1,1,1,0,0,0,0,0])
labels == <<1, 1, 1, 1, 1, 0, 0, 0, 0, 0>>

\* vocab_size = 50 (learning example)
vocab_size_learn == 50

\* max_length = 4
max_length == 4

UpperCase == << "A", "B", "C", "D", "E", "F", "G", "H", "I", "J", "K", "L", "M", "N", "O", "P", "Q", "R", "S", "T", "U", "V", "W", "X", "Y", "Z" >>

LowerCase == << "a", "b", "c", "d", "e", "f", "g", "h", "i", "j", "k", "l", "m", "n", "o", "p", "q", "r", "s", "t", "u", "v", "w", "x", "y", "z" >>

\* str.lower() on one character
LowerChar(c) ==
    IF \E i \in DOMAIN UpperCase : UpperCase[i] = c
    THEN LowerCase[CHOOSE i \in DOMAIN UpperCase : UpperCase[i] = c]
    ELSE c

\* the default filters of text_to_word_sequence / Tokenizer (the backquote,
\* also a filter, has no TLA+ string; no document contains one)
Filters == { "!", "\"", "#", "$", "%", "&", "(", ")", "*", "+", ",", "-", ".", "/", ":", ";", "<", "=", ">", "?", "@", "[", "\\", "]", "^", "_", "{", "|", "}", "~", "\t", "\n" }

\* split(' ') followed by dropping the empty strings
RECURSIVE SplitWords(_, _, _)
SplitWords(chars, cur, acc) ==
    IF chars = <<>>
    THEN IF cur = "" THEN acc ELSE Append(acc, cur)
    ELSE IF Head(chars) = " "
         THEN SplitWords(Tail(chars), "", IF cur = "" THEN acc ELSE Append(acc, cur))
         ELSE SplitWords(Tail(chars), cur \o Head(chars), acc)

text_to_word_sequenceNoLower(text) ==
    SplitWords([i \in DOMAIN text |-> IF text[i] \in Filters THEN " " ELSE text[i]],
               "", <<>>)

\* text_to_word_sequence(text): lower, filters replaced by the split
\* character, split on ' ', empty strings dropped
text_to_word_sequence(text) ==
    LET lowered    == [i \in DOMAIN text |-> LowerChar(text[i])]
        translated == [i \in DOMAIN text |->
                          IF lowered[i] \in Filters THEN " " ELSE lowered[i]]
    IN  SplitWords(translated, "", <<>>)

RECURSIVE Concat(_)
Concat(ss) == IF ss = <<>> THEN <<>> ELSE Head(ss) \o Concat(Tail(ss))

\* the word sequence of each document
DocWords == [d \in DOMAIN docs |-> text_to_word_sequence(docs[d])]

\* every word occurrence of the documents, in reading order
AllWords == Concat(DocWords)

Vocabulary == Range(AllWords)

\* the first position of word w in the word sequence ws
FirstIndex(ws, w) == CHOOSE i \in DOMAIN ws : ws[i] = w /\ \A j \in 1 .. (i - 1) : ws[j] # w

(***************************************************************************)
(* hash(): Python salts the hash of a str per process, so the hash of a    *)
(* word is any integer, fixed for the life of the process.  one_hot only   *)
(* uses hash(w) % (n - 1), so hash values are drawn from 0 .. n - 2.  The  *)
(* assignments drawn are the one of the recorded run (the printed          *)
(* encoded_docs of the learning example) and those that differ from it on  *)
(* at most MaxRehash words.                                                *)
(***************************************************************************)
\* recorded output of print(encoded_docs), learning example
RecordedOneHot ==
    << <<15, 16>>, <<17, 18>>, <<36, 36>>, <<19, 18>>, <<6>>, <<20>>,
       <<11, 36>>, <<38, 17>>, <<11, 18>>, <<19, 38, 16, 17>> >>

RecordedHash ==
    [w \in Vocabulary |-> Concat(RecordedOneHot)[FirstIndex(AllWords, w)] - 1]

RECURSIVE Rehashed(_)
Rehashed(k) ==
    IF k = 0 THEN {RecordedHash}
    ELSE LET prev == Rehashed(k - 1)
         IN  prev \cup { [h EXCEPT ![w] = v] :
                           h \in prev, w \in Vocabulary, v \in 0 .. (vocab_size_learn - 2) }

HashChoices == Rehashed(MaxRehash)

\* one_hot(text, n) = hashing_trick(text, n, hash_function=hash):
\*   [(hash(w) % (n - 1) + 1) for w in text_to_word_sequence(text)]
\* (d is the index of the text in docs)
one_hot(d, n, h) ==
    LET seq == DocWords[d]
    IN  [i \in DOMAIN seq |-> (h[seq[i]] % (n - 1)) + 1]

(***************************************************************************)
(* Tokenizer                                                               *)
(***************************************************************************)
\* word_counts, an OrderedDict: the keys in first-occurrence order ...
RECURSIVE Dedup(_, _)
Dedup(ws, acc) ==
    IF ws = <<>> THEN acc
    ELSE Dedup(Tail(ws), IF Head(ws) \in Range(acc) THEN acc ELSE Append(acc, Head(ws)))

\* ... and the number of occurrences of each
WordCount(ws, w) == Cardinality({i \in DOMAIN ws : ws[i] = w})

\* wcounts.sort(key=lambda x: x[1], reverse=True): a stable sort, so words
\* of equal count keep their first-occurrence order.  Insertion of w after
\* every word whose count is at least that of w.
InsertByCount(sorted, w, ws) ==
    LET keep == {i \in DOMAIN sorted : WordCount(ws, sorted[i]) >= WordCount(ws, w)}
        n    == Cardinality(keep)
    IN  SubSeq(sorted, 1, n) \o <<w>> \o SubSeq(sorted, n + 1, Len(sorted))

RECURSIVE SortByCount(_, _, _)
SortByCount(todo, sorted, ws) ==
    IF todo = <<>> THEN sorted
    ELSE SortByCount(Tail(todo), InsertByCount(sorted, Head(todo), ws), ws)

\* fit_on_texts(texts): word_index = dict(zip(sorted_voc, range(1, len + 1)))
fit_on_texts(texts) ==
    LET ws         == Concat([d \in DOMAIN texts |-> text_to_word_sequence(texts[d])])
        sorted_voc == SortByCount(Dedup(ws, <<>>), <<>>, ws)
    IN  [w \in Range(ws) |-> CHOOSE i \in DOMAIN sorted_voc : sorted_voc[i] = w]

RECURSIVE KnownWords(_, _)
KnownWords(seq, wi) ==
    IF seq = <<>> THEN <<>>
    ELSE (IF Head(seq) \in DOMAIN wi THEN <<wi[Head(seq)]>> ELSE <<>>)
         \o KnownWords(Tail(seq), wi)

\* texts_to_sequences(texts): per text, word_index[w] for each word w of
\* text_to_word_sequence(text) that is in word_index
texts_to_sequences(texts, wi) ==
    [d \in DOMAIN texts |-> KnownWords(text_to_word_sequence(texts[d]), wi)]

(***************************************************************************)
(* pad_sequences(sequences, maxlen, padding='post'); truncating is 'pre'   *)
(* by default, value 0.                                                    *)
(***************************************************************************)
Zeros(n) == [i \in 1 .. n |-> 0]

\* trunc = s[-maxlen:]
TruncatePre(s, maxlen) ==
    IF Len(s) > maxlen THEN SubSeq(s, Len(s) - maxlen + 1, Len(s)) ELSE s

PadRowPre(s, maxlen) ==
    Zeros(maxlen - Len(TruncatePre(s, maxlen))) \o TruncatePre(s, maxlen)

\* x[idx, :len(trunc)] = trunc
PadRow(s, maxlen) ==
    LET trunc == TruncatePre(s, maxlen)
    IN  trunc \o Zeros(maxlen - Len(trunc))

pad_sequences(sequences, maxlen) ==
    [i \in DOMAIN sequences |-> PadRow(sequences[i], maxlen)]

(***************************************************************************)
(* Text preparation: actions.  example "learn" is the listing that learns  *)
(* an embedding (one_hot), "glove" the listing with the Tokenizer.         *)
(***************************************************************************)
InitText ==
    /\ IdleCV
    /\ IdleRun
    /\ IdleGlove
    /\ tpc = "start"
    /\ \/ example = "learn" /\ hashOf \in HashChoices
       \/ example = "glove" /\ hashOf = RecordedHash
    /\ word_index = <<>>
    /\ vocab_size = 0
    /\ encoded_docs = <<>>
    /\ padded_docs = <<>>

\* vocab_size = 50; encoded_docs = [one_hot(d, vocab_size) for d in docs]
EncodeOneHot ==
    /\ example = "learn"
    /\ tpc = "start"
    /\ vocab_size' = vocab_size_learn
    /\ encoded_docs' = [d \in DOMAIN docs |-> one_hot(d, vocab_size_learn, hashOf)]
    /\ tpc' = "encoded"
    /\ UNCHANGED <<example, hashOf, word_index, padded_docs>>
    /\ UNCHANGED <<cvvars, runvars, glovevars>>

\* t = Tokenizer(); t.fit_on_texts(docs); vocab_size = len(t.word_index) + 1
FitOnTexts ==
    /\ example = "glove"
    /\ tpc = "start"
    /\ word_index' = fit_on_texts(docs)
    /\ vocab_size' = Cardinality(DOMAIN word_index') + 1
    /\ tpc' = "fitted"
    /\ UNCHANGED <<example, hashOf, encoded_docs, padded_docs>>
    /\ UNCHANGED <<cvvars, runvars, glovevars>>

\* encoded_docs = t.texts_to_sequences(docs)
TextsToSequences ==
    /\ example = "glove"
    /\ tpc = "fitted"
    /\ encoded_docs' = texts_to_sequences(docs, word_index)
    /\ tpc' = "encoded"
    /\ UNCHANGED <<example, hashOf, word_index, vocab_size, padded_docs>>
    /\ UNCHANGED <<cvvars, runvars, glovevars>>

\* padded_docs = pad_sequences(encoded_docs, maxlen=max_length, padding='post')
PadSequences ==
    /\ tpc = "encoded"
    /\ padded_docs' = pad_sequences(encoded_docs, max_length)
    /\ tpc' = "padded"
    /\ UNCHANGED <<example, hashOf, word_index, vocab_size, encoded_docs>>
    /\ UNCHANGED <<cvvars, runvars, glovevars>>


NextText == EncodeOneHot \/ FitOnTexts \/ TextsToSequences \/ PadSequences

SpecText == InitText /\ [][NextText]_vars

(***************************************************************************)
(* The pre-trained GloVe example: the file, the dictionary, the matrix     *)
(***************************************************************************)
\* the number of coefficients of a word: zeros((vocab_size, 100)),
\* Embedding(vocab_size, 100, ...), glove.6B.100d.txt
EmbeddingDim == 100

Digits == << "0", "1", "2", "3", "4", "5", "6", "7", "8", "9" >>

\* the text of the coefficient sign * (j % 10) of column j
CoefText(sign, j) ==
    IF sign < 0 /\ j % 10 # 0
    THEN << "-", Digits[(j % 10) + 1] >>
    ELSE << Digits[(j % 10) + 1] >>

\* ss[lo] \o ... \o ss[hi]
RECURSIVE ConcatRange(_, _, _)
ConcatRange(ss, lo, hi) ==
    IF lo > hi THEN << >>
    ELSE IF lo = hi THEN ss[lo]
    ELSE LET mid == (lo + hi) \div 2
         IN  ConcatRange(ss, lo, mid) \o ConcatRange(ss, mid + 1, hi)

\* a line of the file: the word, then EmbeddingDim coefficients, separated
\* by single spaces, ended by a newline
GloveEntry(wordChars, sign) ==
    wordChars
      \o ConcatRange([j \in 1 .. EmbeddingDim |-> << " " >> \o CoefText(sign, j)],
                     1, EmbeddingDim)
      \o << "\n" >>

\* the lines a file is made of: a training word with two different
\* vectors, one of them with a form feed after the word, and a word that
\* is not in word_index (a training word in another case)
GloveLines ==
    { GloveEntry(<< "w", "o", "r", "k" >>, 1),
      [GloveEntry(<< "w", "o", "r", "k" >>, -1) EXCEPT ![5] = "\f"],
      GloveEntry(<< "G", "o", "o", "d" >>, -1) }

GloveFiles == UNION {[1 .. n -> GloveLines] : n \in 0 .. MaxGloveLines}

\* the characters str.split() cuts at: those of str.isspace().  A character
\* that has no TLA+ string is written by its code point.
Whitespace ==
    { " ", "\t", "\n", "\r", "\f", "U+000B", "U+001C", "U+001D", "U+001E", "U+001F",
      "U+0085", "U+00A0", "U+1680", "U+2000", "U+2001", "U+2002", "U+2003",
      "U+2004", "U+2005", "U+2006", "U+2007", "U+2008", "U+2009", "U+200A",
      "U+2028", "U+2029", "U+202F", "U+205F", "U+3000" }

RECURSIVE JoinChars(_)
JoinChars(chars) == IF chars = <<>> THEN "" ELSE Head(chars) \o JoinChars(Tail(chars))

\* line.split() on the characters lo .. hi of the line: the line is cut at
\* the runs of whitespace, no token is empty.  The range is cut at the
\* whitespace nearest to its middle; a range without whitespace is a token.
RECURSIVE SplitRange(_, _, _)
SplitRange(line, lo, hi) ==
    IF lo > hi THEN << >>
    ELSE IF \A p \in lo .. hi : line[p] \notin Whitespace
    THEN << JoinChars(SubSeq(line, lo, hi)) >>
    ELSE LET mid  == (lo + hi) \div 2
             At(p) == p \in lo .. hi /\ line[p] \in Whitespace
             d    == CHOOSE k \in 0 .. (hi - lo) :
                        /\ At(mid + k) \/ At(mid - k)
                        /\ \A m \in 0 .. (k - 1) : ~At(mid + m) /\ ~At(mid - m)
             cut  == IF At(mid - d) THEN mid - d ELSE mid + d
         IN  SplitRange(line, lo, cut - 1) \o SplitRange(line, cut + 1, hi)

SplitLine(line) == SplitRange(line, 1, Len(line))

\* the text Python prints for the whole number n, |n| < 10
NumberText(n) == IF n < 0 THEN "-" \o Digits[1 - n] ELSE Digits[n + 1]

\* float(token) for the tokens of the file (whole numbers of one digit)
ParseFloat(token) == CHOOSE n \in -9 .. 9 : NumberText(n) = token

\* asarray(values, dtype='float32')
asarray(values) == [j \in DOMAIN values |-> ParseFloat(values[j])]

\* for line in f: values = line.split(); word = values[0];
\* coefs = asarray(values[1:], dtype='float32'); embeddings_index[word] = coefs
\* (a word that comes twice keeps the coefficients of its last line)
RECURSIVE LoadEmbeddings(_, _)
LoadEmbeddings(file, index) ==
    IF file = <<>> THEN index
    ELSE LET values == SplitLine(Head(file))
             word   == values[1]
             coefs  == asarray(Tail(values))
         IN  LoadEmbeddings(Tail(file),
                            [w \in DOMAIN index \cup {word} |->
                                IF w = word THEN coefs ELSE index[w]])

\* t.word_index.items(): the (word, i) pairs, in the order of the indexes
Items(wi) ==
    [i \in 1 .. Cardinality(DOMAIN wi) |-> << CHOOSE w \in DOMAIN wi : wi[w] = i, i >>]

\* zeros((rows, columns)); rows are numbered from 0
ZeroMatrix(rows, columns) == [r \in 0 .. rows - 1 |-> Zeros(columns)]

\* for word, i in t.word_index.items():
\*     embedding_vector = embeddings_index.get(word)
\*     if embedding_vector is not None: embedding_matrix[i] = embedding_vector
RECURSIVE FillMatrixRowBefore(_, _, _)
FillMatrixRowBefore(matrix, items, index) ==
    IF items = <<>> THEN matrix
    ELSE LET word == Head(items)[1]
             i    == Head(items)[2]
         IN  FillMatrixRowBefore(IF word \in DOMAIN index
                                 THEN [matrix EXCEPT ![i - 1] = index[word]]
                                 ELSE matrix,
                                 Tail(items), index)

RECURSIVE FillMatrix(_, _, _)
FillMatrix(matrix, items, index) ==
    IF items = <<>> THEN matrix
    ELSE LET word == Head(items)[1]
             i    == Head(items)[2]
         IN  FillMatrix(IF word \in DOMAIN index
                        THEN [matrix EXCEPT ![i] = index[word]]
                        ELSE matrix,
                        Tail(items), index)

(***************************************************************************)
(* The pre-trained GloVe example: actions.  The listing prepares the text  *)
(* (FitOnTexts, TextsToSequences, PadSequences), loads the file, builds    *)
(* the weight matrix, defines the model, fits and evaluates it.            *)
(***************************************************************************)
InitGlove ==
    /\ IdleCV
    /\ IdleRun
    /\ example = "glove"
    /\ tpc = "start"
    /\ hashOf = RecordedHash
    /\ word_index = <<>>
    /\ vocab_size = 0
    /\ encoded_docs = <<>>
    /\ padded_docs = <<>>
    /\ gpc = "start"
    /\ glove \in GloveFiles
    /\ embeddings_index = <<>>
    /\ embedding_matrix = <<>>
    /\ model = <<>>
    /\ epoch = 0

\* embeddings_index = dict(); f = open('glove.6B.100d.txt'); for line in f: ...
LoadGlove ==
    /\ tpc = "padded"
    /\ gpc = "start"
    /\ embeddings_index' = LoadEmbeddings(glove, <<>>)
    /\ gpc' = "loaded"
    /\ UNCHANGED <<glove, embedding_matrix, model, epoch>>
    /\ UNCHANGED <<cvvars, textvars, runvars>>

\* embedding_matrix = zeros((vocab_size, 100)); for word, i in t.word_index.items(): ...
BuildMatrix ==
    /\ gpc = "loaded"
    /\ embedding_matrix' = FillMatrix(ZeroMatrix(vocab_size, EmbeddingDim),
                                      Items(word_index), embeddings_index)
    /\ gpc' = "matrix"
    /\ UNCHANGED <<glove, embeddings_index, model, epoch>>
    /\ UNCHANGED <<cvvars, textvars, runvars>>

(***************************************************************************)
(* The pre-trained GloVe example: the model.  A layer holds its weight     *)
(* tensors (shape and values) and the shape of its output for one sample;  *)
(* a tensor of rank 2 is held row by row.                                  *)
(***************************************************************************)
\* model.fit(padded_docs, labels, epochs=50, verbose=0)
epochs == 50

\* input_length=4
input_length == 4

\* Embedding(input_dim, output_dim, weights=[matrix], input_length=n,
\* trainable=...): the layer's weights are set to the matrix given
Embedding(input_dim, output_dim, weights, n, trainable) ==
    [name      |-> "embedding",
     trainable |-> trainable,
     weights   |-> << [shape |-> << input_dim, output_dim >>, value |-> weights[1]] >>,
     output    |-> << n, output_dim >>]

\* Flatten(): no weights
Flatten(input) ==
    [name |-> "flatten", trainable |-> TRUE, weights |-> << >>,
     output |-> << ProdSeq(input) >>]

\* Dense(units): a kernel of input x units weights, all k0 here (the
\* initializer draws them), and a bias of units zeros
Dense(units, input, k0) ==
    [name      |-> "dense",
     trainable |-> TRUE,
     weights   |-> << [shape |-> << input[1], units >>,
                       value |-> [r \in 1 .. input[1] |-> [c \in 1 .. units |-> k0]]],
                      [shape |-> << units >>,
                       value |-> [c \in 1 .. units |-> 0]] >>,
     output    |-> << units >>]

\* the values the initializer of the Dense kernel can draw
InitialKernels == {-1, 1}

\* trainable=False in the Embedding of the listing (the default is True)
EmbeddingTrainableByDefault == TRUE

EmbeddingTrainable == FALSE

\* the number of parameters of a layer (the Param # column of the summary)
CountParams(layer) ==
    SumSeq([t \in DOMAIN layer.weights |-> ProdSeq(layer.weights[t].shape)])

\* one step of the optimizer on a tensor: every weight moves by step
StepTensor(tensor, step) ==
    [tensor EXCEPT !.value =
        IF Len(tensor.shape) = 2
        THEN [r \in DOMAIN tensor.value |->
                 [c \in DOMAIN tensor.value[r] |-> tensor.value[r][c] + step]]
        ELSE [c \in DOMAIN tensor.value |-> tensor.value[c] + step]]

\* the optimizer updates the weights of the trainable layers only
TrainLayer(layer, step) ==
    IF layer.trainable
    THEN [layer EXCEPT !.weights = [t \in DOMAIN layer.weights |->
                                       StepTensor(layer.weights[t], step)]]
    ELSE layer

\* the values of a tensor
TensorValues(tensor) ==
    IF Len(tensor.shape) = 2
    THEN UNION {Range(tensor.value[r]) : r \in DOMAIN tensor.value}
    ELSE Range(tensor.value)

\* model = Sequential(); e = Embedding(vocab_size, 100, weights=[embedding_matrix],
\* input_length=4, trainable=False); model.add(e); model.add(Flatten());
\* model.add(Dense(1, activation='sigmoid')); model.compile(...)
DefineModel ==
    /\ gpc = "matrix"
    /\ \E k0 \in InitialKernels :
          LET e == Embedding(vocab_size, EmbeddingDim, << embedding_matrix >>,
                             input_length, EmbeddingTrainable)
              f == Flatten(e.output)
          IN  model' = << e, f, Dense(1, f.output, k0) >>
    /\ gpc' = "defined"
    /\ UNCHANGED <<glove, embeddings_index, embedding_matrix, epoch>>
    /\ UNCHANGED <<cvvars, textvars, runvars>>

\* one epoch of model.fit(padded_docs, labels, epochs=50, verbose=0)
FitEpoch ==
    /\ gpc = "defined"
    /\ epoch < epochs
    /\ \E step \in {-1, 0, 1} :
          /\ model' = [l \in DOMAIN model |-> TrainLayer(model[l], step)]
          /\ \A l \in DOMAIN model : \A t \in DOMAIN model[l].weights :
                model'[l].weights[t] # model[l].weights[t] =>
                    \A v \in TensorValues(model'[l].weights[t]) :
                        v \in -MaxWeight .. MaxWeight
    /\ epoch' = epoch + 1
    /\ gpc' = IF epoch' = epochs THEN "fitted" ELSE "defined"
    /\ UNCHANGED <<glove, embeddings_index, embedding_matrix>>
    /\ UNCHANGED <<cvvars, textvars, runvars>>

\* loss, accuracy = model.evaluate(padded_docs, labels, verbose=0)
Evaluate ==
    /\ gpc = "fitted"
    /\ gpc' = "evaluated"
    /\ UNCHANGED <<glove, embeddings_index, embedding_matrix, model, epoch>>
    /\ UNCHANGED <<cvvars, textvars, runvars>>

NextGlove ==
    \/ FitOnTexts \/ TextsToSequences \/ PadSequences
    \/ LoadGlove \/ BuildMatrix
    \/ DefineModel \/ FitEpoch \/ Evaluate

SpecGlove == InitGlove /\ [][NextGlove]_vars

(***************************************************************************)
(* The documents as cell sequences.  A cell is a sequence of statements; a *)
(* statement records the names it reads (uses), the names it binds, what   *)
(* it is (op) and, by op, a module, file or printed item (arg) and an open *)
(* mode.  Builtins (print, open, dict, len; R's summary, predict, table)   *)
(* are always bound and not listed.                                        *)
(*   op: "import" | "attach" (R library) | "data" (R data) | "assign" |    *)
(*       "print" | "read_csv" | "open" | "readlines" (the loop over the    *)
(*       lines of the GloVe file) | "items" (the loop over word_index) |   *)
(*       "syntax" (the cell is not code of the kernel's language)          *)
(*   arg of an "assign": what the call prints while it runs ("" nothing)   *)
(***************************************************************************)
S(op, uses, binds, arg, mode) ==
    [op |-> op, uses |-> uses, binds |-> binds, arg |-> arg, mode |-> mode]

\* Pipeline 1 code cell: standardize, LDA, cross_val_score, print
PipeCell1 ==
    << S("import", {}, {"read_csv"}, "pandas", ""),
       S("import", {}, {"KFold", "cross_val_score", "StandardScaler", "Pipeline", "LinearDiscriminantAnalysis"}, "sklearn", ""),
       S("assign", {}, {"url", "names"}, "", ""),
       S("read_csv", {"read_csv", "url", "names"}, {"dataframe"}, "url", ""),
       S("assign", {"dataframe"}, {"array"}, "", ""),
       S("assign", {"array"}, {"X", "Y"}, "", ""),
       S("assign", {"StandardScaler", "LinearDiscriminantAnalysis", "Pipeline"}, {"estimators", "model"}, "", ""),
       S("assign", {"KFold"}, {"seed", "kfold"}, "", ""),
       S("assign", {"cross_val_score", "model", "X", "Y", "kfold"}, {"results"}, "", ""),
       S("print", {"results"}, {}, "mean", "") >>

\* Pipeline 2 code cell: feature union, logistic regression, cross_val_score, print
PipeCell2 ==
    << S("import", {}, {"read_csv"}, "pandas", ""),
       S("import", {}, {"KFold", "cross_val_score", "Pipeline", "FeatureUnion", "LogisticRegression", "PCA", "SelectKBest"}, "sklearn", ""),
       S("assign", {}, {"url", "names"}, "", ""),
       S("read_csv", {"read_csv", "url", "names"}, {"dataframe"}, "url", ""),
       S("assign", {"dataframe"}, {"array"}, "", ""),
       S("assign", {"array"}, {"X", "Y"}, "", ""),
       S("assign", {"PCA", "SelectKBest", "FeatureUnion"}, {"features", "feature_union"}, "", ""),
       S("assign", {"feature_union", "LogisticRegression", "Pipeline"}, {"estimators", "model"}, "", ""),
       S("assign", {"KFold"}, {"seed", "kfold"}, "", ""),
       S("assign", {"cross_val_score", "model", "X", "Y", "kfold"}, {"results"}, "", ""),
       S("print", {"results"}, {}, "mean", "") >>

\* R chunk: library(mda); data(iris); fit <- mda(...); summary; predict; table
RecipeMDA ==
    << S("attach", {}, {"mda", "fda"}, "mda", ""),
       S("data", {}, {"iris"}, "iris", ""),
       S("assign", {"mda", "iris"}, {"fit"}, "", ""),
       S("print", {"fit"}, {}, "summary", ""),
       S("assign", {"fit", "iris"}, {"predictions"}, "", ""),
       S("print", {"predictions", "iris"}, {}, "table", "") >>

\* R chunk: library(MASS); data(iris); fit <- qda(...); summary; predict; table
RecipeQDA ==
    << S("attach", {}, {"qda"}, "MASS", ""),
       S("data", {}, {"iris"}, "iris", ""),
       S("assign", {"qda", "iris"}, {"fit"}, "", ""),
       S("print", {"fit"}, {}, "summary", ""),
       S("assign", {"fit", "iris"}, {"predictions"}, "", ""),
       S("print", {"predictions", "iris"}, {}, "table", "") >>

\* R chunk: library(klaR); data(iris); fit <- rda(...); summary; predict; table
RecipeRDA ==
    << S("attach", {}, {"rda"}, "klaR", ""),
       S("data", {}, {"iris"}, "iris", ""),
       S("assign", {"rda", "iris"}, {"fit"}, "", ""),
       S("print", {"fit"}, {}, "summary", ""),
       S("assign", {"fit", "iris"}, {"predictions"}, "", ""),
       S("print", {"predictions", "iris"}, {}, "table", "") >>

\* R chunk: library(nnet); data(iris); fit <- nnet(...); summary; predict; table
\* nnet(...) is called with its default trace = TRUE and prints the number
\* of weights and the value of the fitting criterion as it iterates
RecipeNNet ==
    << S("attach", {}, {"nnet"}, "nnet", ""),
       S("data", {}, {"iris"}, "iris", ""),
       S("assign", {"nnet", "iris"}, {"fit"}, "nnet trace", ""),
       S("print", {"fit"}, {}, "summary", ""),
       S("assign", {"fit", "iris"}, {"predictions"}, "", ""),
       S("print", {"predictions", "iris"}, {}, "table", "") >>

\* R chunk: library(mda); data(iris); fit <- fda(...); summary; predict; table
RecipeFDA ==
    << S("attach", {}, {"mda", "fda"}, "mda", ""),
       S("data", {}, {"iris"}, "iris", ""),
       S("assign", {"fda", "iris"}, {"fit"}, "", ""),
       S("print", {"fit"}, {}, "summary", ""),
       S("assign", {"fit", "iris"}, {"predictions"}, "", ""),
       S("print", {"predictions", "iris"}, {}, "table", "") >>

\* R chunk: library(kernlab); data(iris); fit <- ksvm(...); summary; predict; table
RecipeSVM ==
    << S("attach", {}, {"ksvm"}, "kernlab", ""),
       S("data", {}, {"iris"}, "iris", ""),
       S("assign", {"ksvm", "iris"}, {"fit"}, "", ""),
       S("print", {"fit"}, {}, "summary", ""),
       S("assign", {"fit", "iris"}, {"predictions"}, "", ""),
       S("print", {"predictions", "iris"}, {}, "table", "") >>

\* R chunk: library(caret); data(iris); fit <- knn3(...); summary; predict; table
RecipeKNN ==
    << S("attach", {}, {"knn3"}, "caret", ""),
       S("data", {}, {"iris"}, "iris", ""),
       S("assign", {"knn3", "iris"}, {"fit"}, "", ""),
       S("print", {"fit"}, {}, "summary", ""),
       S("assign", {"fit", "iris"}, {"predictions"}, "", ""),
       S("print", {"predictions", "iris"}, {}, "table", "") >>

\* R chunk: library(e1071); data(iris); fit <- naiveBayes(...); summary; predict; table
RecipeNaiveBayes ==
    << S("attach", {}, {"naiveBayes"}, "e1071", ""),
       S("data", {}, {"iris"}, "iris", ""),
       S("assign", {"naiveBayes", "iris"}, {"fit"}, "", ""),
       S("print", {"fit"}, {}, "summary", ""),
       S("assign", {"fit", "iris"}, {"predictions"}, "", ""),
       S("print", {"predictions", "iris"}, {}, "table", "") >>

\* code cell holding the formula yhat(t) = f(X(t), X(t-1), ...)
TbpttCell1ImportingKeras ==
    << S("import", {}, {"Sequential"}, "keras", "") >>

TbpttCell1 ==
    << S("syntax", {}, {}, "", "") >>

\* e = Embedding(200, 32, input_length=50)
EmbCell1 ==
    << S("assign", {"Embedding"}, {"e"}, "", "") >>

\* docs = [...]; labels = array([...])
EmbCell2 ==
    << S("assign", {}, {"docs"}, "", ""),
       S("assign", {"array"}, {"labels"}, "", "") >>

\* vocab_size = 50; encoded_docs = [one_hot(d, vocab_size) for d in docs]; print
EmbCell3 ==
    << S("assign", {}, {"vocab_size"}, "", ""),
       S("assign", {"one_hot", "docs", "vocab_size"}, {"encoded_docs"}, "", ""),
       S("print", {"encoded_docs"}, {}, "encoded_docs", "") >>

\* max_length = 4; padded_docs = pad_sequences(...); print
EmbCell4 ==
    << S("assign", {}, {"max_length"}, "", ""),
       S("assign", {"pad_sequences", "encoded_docs", "max_length"}, {"padded_docs"}, "", ""),
       S("print", {"padded_docs"}, {}, "padded_docs", "") >>

\* model = Sequential(); add Embedding, Flatten, Dense; compile; print(model.summary())
EmbCell5 ==
    << S("assign", {"Sequential"}, {"model"}, "", ""),
       S("assign", {"model", "Embedding", "vocab_size", "max_length"}, {}, "", ""),
       S("assign", {"model", "Flatten"}, {}, "", ""),
       S("assign", {"model", "Dense"}, {}, "", ""),
       S("assign", {"model"}, {}, "", ""),
       S("print", {"model"}, {}, "summary", "") >>

\* model.fit(...); loss, accuracy = model.evaluate(...); print('Accuracy: ...')
EmbCell6 ==
    << S("assign", {"model", "padded_docs", "labels"}, {}, "", ""),
       S("assign", {"model", "padded_docs", "labels"}, {"loss", "accuracy"}, "", ""),
       S("print", {"accuracy"}, {}, "accuracy", "") >>

\* imports of the first complete listing
EmbImports1 ==
    << S("import", {}, {"array"}, "numpy", ""),
       S("import", {}, {"one_hot"}, "keras", ""),
       S("import", {}, {"pad_sequences"}, "keras", ""),
       S("import", {}, {"Sequential"}, "keras", ""),
       S("import", {}, {"Dense"}, "keras", ""),
       S("import", {}, {"Flatten"}, "keras", ""),
       S("import", {}, {"Embedding"}, "keras", "") >>

\* the first complete listing: the imports, then the code of the five cells before it
EmbListing1 ==
    EmbImports1 \o EmbCell2 \o EmbCell3 \o EmbCell4 \o EmbCell5 \o EmbCell6

\* code cell holding the first line of glove.6B.100d.txt
EmbCell8 ==
    << S("syntax", {}, {}, "", "") >>

\* docs; labels; t = Tokenizer(); fit_on_texts; vocab_size; texts_to_sequences; print; pad_sequences; print
EmbCell9 ==
    << S("assign", {}, {"docs"}, "", ""),
       S("assign", {"array"}, {"labels"}, "", ""),
       S("assign", {"Tokenizer"}, {"t"}, "", ""),
       S("assign", {"t", "docs"}, {}, "", ""),
       S("assign", {"t"}, {"vocab_size"}, "", ""),
       S("assign", {"t", "docs"}, {"encoded_docs"}, "", ""),
       S("print", {"encoded_docs"}, {}, "encoded_docs", ""),
       S("assign", {}, {"max_length"}, "", ""),
       S("assign", {"pad_sequences", "encoded_docs", "max_length"}, {"padded_docs"}, "", ""),
       S("print", {"padded_docs"}, {}, "padded_docs", "") >>

\* f = open('glove.6B.100d.txt')
GloveOpenWrite == S("open", {}, {"f"}, "glove.6B.100d.txt", "w")

GloveOpen == S("open", {}, {"f"}, "glove.6B.100d.txt", "r")

\* embeddings_index = dict(); f = open(...); for line in f: ...; f.close(); print('Loaded ...')
EmbCell10 ==
    << S("assign", {}, {"embeddings_index"}, "", ""),
       GloveOpen,
       S("readlines", {"f", "asarray", "embeddings_index"}, {"line", "values", "word", "coefs"}, "glove.6B.100d.txt", ""),
       S("assign", {"f"}, {}, "", ""),
       S("print", {"embeddings_index"}, {}, "loaded", "") >>

\* embedding_matrix = zeros((vocab_size, 100)); for word, i in t.word_index.items(): ...
EmbCell11 ==
    << S("assign", {"zeros", "vocab_size"}, {"embedding_matrix"}, "", ""),
       S("items", {"t", "embeddings_index", "embedding_matrix"}, {"word", "i", "embedding_vector"}, "", "") >>

\* e = Embedding(vocab_size, 100, weights=[embedding_matrix], input_length=4, trainable=False)
EmbCell12 ==
    << S("assign", {"Embedding", "vocab_size", "embedding_matrix"}, {"e"}, "", "") >>

\* imports of the second complete listing
EmbImports2 ==
    << S("import", {}, {"array"}, "numpy", ""),
       S("import", {}, {"asarray"}, "numpy", ""),
       S("import", {}, {"zeros"}, "numpy", ""),
       S("import", {}, {"Tokenizer"}, "keras", ""),
       S("import", {}, {"pad_sequences"}, "keras", ""),
       S("import", {}, {"Sequential"}, "keras", ""),
       S("import", {}, {"Dense"}, "keras", ""),
       S("import", {}, {"Flatten"}, "keras", ""),
       S("import", {}, {"Embedding"}, "keras", "") >>

\* model = Sequential(); e = Embedding(...); model.add(e); Flatten; Dense; compile; summary; fit; evaluate; print
EmbModel2 ==
    << S("assign", {"Sequential"}, {"model"}, "", ""),
       S("assign", {"Embedding", "vocab_size", "embedding_matrix"}, {"e"}, "", ""),
       S("assign", {"model", "e"}, {}, "", ""),
       S("assign", {"model", "Flatten"}, {}, "", ""),
       S("assign", {"model", "Dense"}, {}, "", ""),
       S("assign", {"model"}, {}, "", ""),
       S("print", {"model"}, {}, "summary", ""),
       S("assign", {"model", "padded_docs", "labels"}, {}, "", ""),
       S("assign", {"model", "padded_docs", "labels"}, {"loss", "accuracy"}, "", ""),
       S("print", {"accuracy"}, {}, "accuracy", "") >>

\* the second complete listing
EmbListing2 ==
    EmbImports2 \o EmbCell9 \o EmbCell10 \o EmbCell11 \o EmbModel2


Docs == {"pipelines", "recipes", "tbptt", "embedding"}

\* the code cells (R chunks) of a document, in document order
Cells(d) ==
    CASE d = "pipelines" -> <<PipeCell1, PipeCell2>>
      [] d = "recipes"   -> <<RecipeMDA, RecipeQDA, RecipeRDA, RecipeNNet,
                              RecipeFDA, RecipeSVM, RecipeKNN, RecipeNaiveBayes>>
      [] d = "tbptt"     -> <<TbpttCell1>>
      [] d = "embedding" -> <<EmbCell1, EmbCell2, EmbCell3, EmbCell4, EmbCell5,
                              EmbCell6, EmbListing1, EmbCell8, EmbCell9, EmbCell10,
                              EmbCell11, EmbCell12, EmbListing2>>

\* each document is a file of its own with its own kernelspec (the R
\* markdown file is knitted in its own R session): the kernel of a
\* document is started for it
KernelOf(d) == d

HasOp(cell, op) == \E i \in DOMAIN cell : cell[i].op = op

OpIndex(cell, op) == CHOOSE i \in DOMAIN cell : cell[i].op = op

\* the cell imports from keras
ImportsKeras(cell) == \E i \in DOMAIN cell : cell[i].op = "import" /\ cell[i].arg = "keras"

\* the configuration file of keras in the home directory of the user
KerasConfig == "~/.keras/keras.json"

\* what a run can find outside.  The GloVe file: well formed with lines,
\* a training word among them ("ok") or none ("other_words"), without any
\* line ("empty"), absent ("missing"), with an empty line or with a
\* coefficient that is no number, as its first line or after well-formed
\* lines that hold a training word; with bytes that the default encoding
\* of the session cannot decode (open names no encoding), in the first
\* block read from the file or in a later block, after well-formed lines
\* that hold a training word; well formed but with a training word's line
\* of a number of coefficients that a row of 100 columns cannot take
\* ("wrong_width").  The dataset URL: answering or not.  The configuration
\* file of keras: there or not.
GloveWorlds ==
    {"ok", "other_words", "empty", "missing", "blank_first", "blank_later",
     "badfloat_first", "badfloat_later", "undecodable_first",
     "undecodable_later", "wrong_width"}

\* the lines read from the file put a training word into embeddings_index
TrainingWordLoaded(glove_world) ==
    glove_world \in {"ok", "blank_later", "badfloat_later", "undecodable_later",
                     "wrong_width"}

\* the cell depends on the GloVe file: it opens it, or it loops over the
\* words with what was loaded from it
UsesGlove(cell) == HasOp(cell, "open") \/ HasOp(cell, "items")

Worlds(cell) ==
    [glove : IF UsesGlove(cell) THEN GloveWorlds ELSE {"ok"},
     url   : IF HasOp(cell, "read_csv") THEN {"ok", "unreachable"} ELSE {"ok"},
     keras_json : IF ImportsKeras(cell) THEN {"absent", "present"} ELSE {"present"}]

\* A statement is evaluated in phases; a phase looks up names (NameError
\* when one is unbound), then makes a call that can raise, then binds names
Phase(uses, raise, binds) == [uses |-> uses, raise |-> raise, binds |-> binds]

\* for line in f: values = line.split(); word = values[0];
\* coefs = asarray(values[1:], dtype='float32'); embeddings_index[word] = coefs
\* The body runs once per line, so its names are looked up only when the
\* file has a line: f; then line and values are bound, values[0] raises
\* IndexError on an empty line; then asarray is looked up and raises
\* ValueError on a coefficient that is no number; then embeddings_index.
\* A file opened for writing cannot be iterated (io.UnsupportedOperation).
\* The iteration decodes the file block by block and raises
\* UnicodeDecodeError when it reads a block it cannot decode: before any
\* line is bound when that is the first block, else after the lines of
\* the blocks before it went through the body.
GloveLoopPhases(glove_world) ==
    LET first == << Phase({"f"}, "", {"line", "values"}) >>
        word  == << Phase({}, "", {"word"}) >>
        rest  == << Phase({"asarray"}, "", {"coefs"}),
                    Phase({"embeddings_index"}, "", {}) >>
    IN  CASE glove_world = "empty"          -> << Phase({"f"}, "", {}) >>
          [] glove_world = "opened_w"       ->
                << Phase({"f"}, "UnsupportedOperation", {}) >>
          [] glove_world = "blank_first"    -> first \o << Phase({}, "IndexError", {}) >>
          [] glove_world = "badfloat_first" ->
                first \o word \o << Phase({"asarray"}, "ValueError", {}) >>
          [] glove_world = "blank_later"    ->
                first \o word \o rest \o << Phase({}, "IndexError", {}) >>
          [] glove_world = "badfloat_later" ->
                first \o word \o rest \o << Phase({}, "ValueError", {}) >>
          [] glove_world = "undecodable_first" ->
                << Phase({"f"}, "UnicodeDecodeError", {}) >>
          [] glove_world = "undecodable_later" ->
                first \o word \o rest \o << Phase({}, "UnicodeDecodeError", {}) >>
          [] OTHER                          -> first \o word \o rest

\* for word, i in t.word_index.items():
\*     embedding_vector = embeddings_index.get(word)
\*     if embedding_vector is not None: embedding_matrix[i] = embedding_vector
\* word_index is never empty (the documents are a literal of the cell), so
\* the body runs: embeddings_index is looked up for every word,
\* embedding_matrix only for a word that embeddings_index holds; the
\* assignment to the row raises ValueError when the vector has a number of
\* coefficients that cannot be broadcast to the 100 columns
ItemsLoopPhases(glove_world) ==
    << Phase({"t"}, "", {"word", "i"}),
       Phase({"embeddings_index"}, "", {"embedding_vector"}) >>
      \o IF TrainingWordLoaded(glove_world)
         THEN << Phase({"embedding_matrix"},
                       IF glove_world = "wrong_width" THEN "ValueError" ELSE "",
                       {}) >>
         ELSE << >>

\* the phases of a statement
Phases(st, world) ==
    CASE st.op = "readlines" -> GloveLoopPhases(world.glove)
      [] st.op = "items"     -> ItemsLoopPhases(world.glove)
      [] st.op = "read_csv"  ->
            << Phase(st.uses, IF world.url = "unreachable" THEN "URLError" ELSE "",
                     st.binds) >>
      [] st.op = "open"      ->
            << Phase(st.uses,
                     IF world.glove = "missing" /\ st.mode = "r"
                     THEN "FileNotFoundError" ELSE "",
                     st.binds) >>
      [] OTHER               -> << Phase(st.uses, "", st.binds) >>

\* the phases run one after the other from the names bound: the error of
\* the first phase that raises ("" when none does) and the names bound then
RECURSIVE RunPhases(_, _)
RunPhases(phases, names) ==
    IF phases = << >> THEN [error |-> "", names |-> names]
    ELSE LET p == Head(phases)
         IN  IF ~(p.uses \subseteq names) THEN [error |-> "NameError", names |-> names]
             ELSE IF p.raise # "" THEN [error |-> p.raise, names |-> names]
             ELSE RunPhases(Tail(phases), names \cup p.binds)

\* the exception a statement raises ("" when it completes); nothing in the
\* documents catches one
RaisesSwallowingIOErrors(st, names, world) ==
    LET ph == Phases(st, world)
    IN  RunPhases([p \in DOMAIN ph |-> Phase(ph[p].uses, "", ph[p].binds)], names).error

Raises(st, names, world) == RunPhases(Phases(st, world), names).error

\* the names bound when the statement has completed or raised
BoundBy(st, names, world) == RunPhases(Phases(st, world), names).names

\* the packages library(pkg) attaches before pkg (Depends of the package)
Requires(pkg) ==
    CASE pkg = "mda"   -> {"class"}
      [] pkg = "klaR"  -> {"MASS"}
      [] pkg = "caret" -> {"lattice", "ggplot2"}
      [] OTHER         -> {}

\* the messages library(pkg) writes in a session with the packages mods
\* attached (the chunks have the plain header {r}, so messages are not
\* suppressed): none when pkg is attached already; one line for every
\* required package that has to be attached; the line of mda's own startup
\* hook (followed by its version); and, when ggplot2 is attached after
\* kernlab, the notice that it masks kernlab's alpha
StartupMessages(pkg, mods) ==
    IF pkg \in mods THEN {}
    ELSE {"Loading required package: " \o r : r \in Requires(pkg) \ mods}
         \cup (IF pkg = "mda" THEN {"Loaded mda"} ELSE {})
         \cup (IF "ggplot2" \in Requires(pkg) \ mods /\ "kernlab" \in mods
               THEN {"Attaching package: 'ggplot2'",
                     "The following object is masked from 'package:kernlab': alpha"}
               ELSE {})

\* what the first import of keras in a kernel writes to stderr (the
\* recorded stderr output of the first listing): the FutureWarning of h5py,
\* which keras imports, and the backend notice
KerasImportNotices ==
    {"FutureWarning: Conversion of the second argument of issubdtype",
     "Using TensorFlow backend."}

\* what a completed statement does outside the kernel's memory.  The first
\* import of keras in a kernel writes its notices to stderr and loads the
\* configuration file of keras, which it creates when it is not there.
\* library(pkg) writes the startup messages to stderr.  A call writes what
\* it prints while it runs to stdout.
EffectsOf(st, mods, world) ==
    CASE st.op = "import" ->
            IF st.arg = "keras" /\ "keras" \notin mods
            THEN {[kind |-> "stderr", target |-> m] : m \in KerasImportNotices}
                 \cup {[kind |-> IF world.keras_json = "absent" THEN "write" ELSE "read",
                        target |-> KerasConfig]}
            ELSE {}
      [] st.op = "attach"    ->
            {[kind |-> "stderr", target |-> m] : m \in StartupMessages(st.arg, mods)}
      [] st.op = "assign"    ->
            IF st.arg # "" THEN {[kind |-> "stdout", target |-> st.arg]} ELSE {}
      [] st.op = "print"     -> {[kind |-> "stdout", target |-> st.arg]}
      [] st.op = "read_csv"  -> {[kind |-> "read", target |-> st.arg]}
      [] st.op = "data"      -> {[kind |-> "read", target |-> st.arg]}
      [] st.op = "readlines" -> {[kind |-> "read", target |-> st.arg]}
      [] st.op = "open"      ->
            {[kind |-> IF st.mode = "r" THEN "read" ELSE "write", target |-> st.arg]}
      [] OTHER -> {}

\* what a statement that raised has done outside before: the loop over the
\* file has read from it once f was found and could be read
EffectsOfFailed(st, names, world) ==
    IF st.op = "readlines" /\ "f" \in names /\ world.glove # "opened_w"
    THEN {[kind |-> "read", target |-> st.arg]}
    ELSE {}

\* what the statements after st find: open(..., 'w') leaves the file
\* without a line and gives a handle that cannot be read
WorldAfter(st, world) ==
    IF st.op = "open" /\ st.mode # "r"
    THEN [world EXCEPT !.glove = "opened_w"]
    ELSE world

\* the statements of a cell from statement i on; the first exception ends
\* the run of the cell, the names bound until then stay bound
RECURSIVE Exec(_, _, _, _)
Exec(cell, i, k, world) ==
    IF i > Len(cell) THEN k
    ELSE LET st    == cell[i]
             err   == Raises(st, k.names, world)
             bound == BoundBy(st, k.names, world)
         IN  IF err # ""
             THEN [k EXCEPT !.error = err, !.failedAt = i,
                            !.names = bound,
                            !.effects = @ \cup EffectsOfFailed(st, k.names, world)]
             ELSE Exec(cell, i + 1,
                       [k EXCEPT !.names = bound,
                                 !.loaded = CASE st.op = "import" -> @ \cup {st.arg}
                                              [] st.op = "attach" ->
                                                    @ \cup {st.arg} \cup Requires(st.arg)
                                              [] OTHER -> @,
                                 !.executed = @ \cup {i},
                                 !.effects = @ \cup EffectsOf(st, k.loaded, world)],
                       WorldAfter(st, world))

\* one run of a cell in a kernel holding names and the loaded modules: a
\* cell that does not compile raises SyntaxError before any statement runs
RunResult(cell, names, mods, world) ==
    LET k0 == [names |-> names, loaded |-> mods, executed |-> {},
               effects |-> {}, error |-> "", failedAt |-> 0]
    IN  IF HasOp(cell, "syntax")
        THEN [k0 EXCEPT !.error = "SyntaxError"]
        ELSE Exec(cell, 1, k0, world)

NoRun == [cell |-> 0, world |-> [glove |-> "ok", url |-> "ok", keras_json |-> "present"],
          executed |-> {}, failedAt |-> 0, error |-> "", effects |-> {}]

\* the files a session can find
Disks == [glove : GloveWorlds, keras_json : {"absent", "present"}]

\* the cell finds of the files it looks at what the disk holds
FindsOn(world, cell, dk) ==
    /\ UsesGlove(cell) => world.glove = dk.glove
    /\ ImportsKeras(cell) => world.keras_json = dk.keras_json

\* the files after a run with these effects: a file opened for writing is
\* left without a line, the configuration file written is there
DiskAfter(dk, effects) ==
    [glove |-> IF [kind |-> "write", target |-> "glove.6B.100d.txt"] \in effects
               THEN "empty" ELSE dk.glove,
     keras_json |-> IF [kind |-> "write", target |-> KerasConfig] \in effects
                    THEN "present" ELSE dk.keras_json]

(***************************************************************************)
(* The documents run: actions                                              *)
(***************************************************************************)
Init ==
    /\ IdleCV
    /\ IdleText
    /\ IdleGlove
    /\ opened \in SUBSET Docs \ {{}}
    /\ ns = [d \in Docs |-> {}]
    /\ loaded = [d \in Docs |-> {}]
    /\ nextCell = [d \in Docs |-> 1]
    /\ lastRun = [d \in Docs |-> NoRun]
    /\ disk0 \in Disks
    /\ disk = disk0

\* the next cell of document d is run in d's kernel on the files of the disk
RunCell(d) ==
    /\ d \in opened
    /\ nextCell[d] <= Len(Cells(d))
    /\ LET c    == nextCell[d]
           cell == Cells(d)[c]
           kn   == KernelOf(d)
       IN  \E world \in Worlds(cell) :
              /\ FindsOn(world, cell, disk)
              /\ \E r \in {RunResult(cell, ns[kn], loaded[kn], world)} :
                     /\ ns' = [ns EXCEPT ![kn] = r.names]
                     /\ loaded' = [loaded EXCEPT ![kn] = r.loaded]
                     /\ lastRun' = [lastRun EXCEPT ![d] =
                           [cell |-> c, world |-> world, executed |-> r.executed,
                            failedAt |-> r.failedAt, error |-> r.error,
                            effects |-> r.effects]]
                     /\ disk' = DiskAfter(disk, r.effects)
    /\ nextCell' = [nextCell EXCEPT ![d] = @ + 1]
    /\ UNCHANGED <<opened, disk0>>
    /\ UNCHANGED <<cvvars, textvars, glovevars>>

Next == \E d \in Docs : RunCell(d)

Spec == Init /\ [][Next]_vars

(***************************************************************************)
(* Claims about cross validation (SpecCV)                                  *)
(***************************************************************************)
\* the rows a fold was scored on / fitted on, read from the logs
ScoredOn(k) == UNION {applied[k][c] : c \in DOMAIN applied[k]}

FittedOn(k) == UNION {fitted[k][c] : c \in DOMAIN fitted[k]}

\* C1: in Pipeline 1 (StandardScaler, then LDA) every fold fits the scaler
\* and the LDA model on rows outside the fold's test set, on exactly the
\* other rows, and the fold's test rows are only transformed and scored.
C1_Pipeline1NoLeak ==
    pipeline = "p1" =>
        \A k \in DOMAIN fitted :
            /\ DOMAIN fitted[k] = {"standardize", "lda"}
            /\ DOMAIN applied[k] = {"standardize", "lda"}
            /\ \A c \in DOMAIN fitted[k] :
                  /\ fitted[k][c] \cap ScoredOn(k) = {}
                  /\ fitted[k][c] = Rows(nrows) \ ScoredOn(k)
                  /\ applied[k][c] = ScoredOn(k)

C1_Witness ==
    /\ pipeline = "p1"
    /\ cvpc = "done"
    /\ nrows % n_splits # 0
    /\ Len(fitted) = n_splits

\* C2: in Pipeline 2 (FeatureUnion of PCA and SelectKBest, then logistic
\* regression) PCA, SelectKBest and the logistic model are each fitted, in
\* every fold, on that fold's training rows only; no test row of the fold is
\* an input to any fit of the fold.
C2_Pipeline2NoLeak ==
    pipeline = "p2" =>
        \A k \in DOMAIN fitted :
            /\ DOMAIN fitted[k] = {"pca", "select_best", "logistic"}
            /\ \A c \in {"pca", "select_best", "logistic"} :
                  /\ fitted[k][c] \cap ScoredOn(k) = {}
                  /\ fitted[k][c] \subseteq Rows(nrows)
                  /\ \A r \in Rows(nrows) \ fitted[k][c] : r \in ScoredOn(k)

C2_Witness ==
    /\ pipeline = "p2"
    /\ cvpc = "done"
    /\ nrows % n_splits # 0
    /\ Len(fitted) = n_splits
    /\ fitted[1]["pca"] = fitted[1]["select_best"]

\* C3: 10 folds; the test sets are pairwise disjoint and cover every row, so
\* each row is tested in exactly one fold and trained on in the other nine;
\* a fold's training set is the complement of its test set; there are
\* exactly 10 scores and the printed value is their mean.
C3_TenFoldPartition ==
    /\ \A j, k \in DOMAIN applied : j # k => ScoredOn(j) \cap ScoredOn(k) = {}
    /\ \A k \in DOMAIN fitted : FittedOn(k) = Rows(nrows) \ ScoredOn(k)
    /\ Len(results) = Len(applied) /\ Len(fitted) = Len(applied)
    /\ cvpc \in {"print", "done"} =>
          /\ Len(applied) = 10
          /\ Len(results) = 10
          /\ \A r \in Rows(nrows) :
                /\ Cardinality({k \in DOMAIN applied : r \in ScoredOn(k)}) = 1
                /\ Cardinality({k \in DOMAIN fitted : r \in FittedOn(k)}) = 9
          /\ \A k \in DOMAIN results :
                /\ results[k][2] = Cardinality(ScoredOn(k))
                /\ results[k][1] \in 0 .. results[k][2]
    /\ cvpc = "done" =>
          \* printed = (sum of the 10 scores) / 10, cross-multiplied over the
          \* product of all fold sizes
          LET L == ProdSeq([k \in DOMAIN results |-> results[k][2]])
          IN  /\ Len(printed) = 2
              /\ printed[2] > 0
              /\ printed[1] * 10 * L
                   = printed[2] * SumSeq([k \in DOMAIN results |->
                                            results[k][1] * (L \div results[k][2])])

C3_Witness ==
    /\ cvpc = "done"
    /\ nrows % n_splits = 2
    /\ \E j, k \in DOMAIN results :
          /\ results[j][2] # results[k][2]
          /\ results[j][1] = results[j][2]
          /\ results[k][1] = 0

(***************************************************************************)
(* Claims about text preparation (SpecText)                                *)
(***************************************************************************)
\* the words of the ten documents as a reader takes them: letter case
\* ignored, punctuation removed
ExpectedWords ==
    << <<"well", "done">>, <<"good", "work">>, <<"great", "effort">>,
       <<"nice", "work">>, <<"excellent">>, <<"weak">>, <<"poor", "effort">>,
       <<"not", "good">>, <<"poor", "work">>,
       <<"could", "have", "done", "better">> >>

ExpectedVocabulary ==
    {"well", "done", "good", "work", "great", "effort", "nice", "excellent",
     "weak", "poor", "not", "could", "have", "better"}

\* the (document, position) pairs of the word occurrences
Occurrences ==
    {o \in (1 .. 10) \X (1 .. 4) : o[2] <= Len(ExpectedWords[o[1]])}

\* C8: with one_hot(d, 50) every word is represented by a unique integer: two
\* distinct words never receive the same integer, and every occurrence of
\* the same word receives the same integer.
C8_UniqueInteger ==
    (example = "learn" /\ tpc \in {"encoded", "padded"}) =>
        /\ \A d \in DOMAIN ExpectedWords : Len(encoded_docs[d]) = Len(ExpectedWords[d])
        /\ \A o, q \in Occurrences :
              (ExpectedWords[o[1]][o[2]] = ExpectedWords[q[1]][q[2]])
                 <=> (encoded_docs[o[1]][o[2]] = encoded_docs[q[1]][q[2]])

\* C9: after fit_on_texts(docs), word_index maps the 14 distinct words of the
\* documents (case ignored, punctuation removed) one-to-one onto 1..14, 0 is
\* assigned to no word, and texts_to_sequences encodes every occurrence of a
\* word as its word_index value, in the word order of the document.
C9_TokenizerConsistent ==
    (example = "glove" /\ tpc \in {"fitted", "encoded", "padded"}) =>
        /\ DOMAIN word_index = ExpectedVocabulary
        /\ Cardinality(DOMAIN word_index) = 14
        /\ {word_index[w] : w \in DOMAIN word_index} = 1 .. 14
        /\ \A v, w \in DOMAIN word_index : v # w => word_index[v] # word_index[w]
        /\ \A w \in DOMAIN word_index : word_index[w] # 0
        /\ tpc \in {"encoded", "padded"} =>
              /\ Len(encoded_docs) = Len(ExpectedWords)
              /\ \A d \in DOMAIN ExpectedWords :
                    encoded_docs[d] =
                       [i \in 1 .. Len(ExpectedWords[d]) |-> word_index[ExpectedWords[d][i]]]

\* the recorded output of print(encoded_docs) of the GloVe listing
C9_Witness ==
    /\ example = "glove"
    /\ tpc = "encoded"
    /\ encoded_docs = << <<6, 2>>, <<3, 1>>, <<7, 4>>, <<8, 1>>, <<9>>, <<10>>,
                         <<5, 4>>, <<11, 3>>, <<5, 1>>, <<12, 13, 2, 14>> >>

\* C10: after pad_sequences(encoded_docs, maxlen=4, padding='post'), in both
\* examples, each of the 10 rows has exactly 4 entries: the document's
\* encoded tokens in their order, then only zeros; no document has more
\* than 4 tokens, so none is truncated.
C10_PaddingKeepsTokens ==
    tpc = "padded" =>
        /\ Len(padded_docs) = 10
        /\ \A d \in 1 .. 10 :
              LET n == Len(ExpectedWords[d])
              IN  /\ Len(padded_docs[d]) = 4
                  /\ Len(encoded_docs[d]) = n
                  /\ n <= 4
                  /\ \A i \in 1 .. n :
                        /\ padded_docs[d][i] = encoded_docs[d][i]
                        /\ padded_docs[d][i] # 0
                  /\ \A i \in (n + 1) .. 4 : padded_docs[d][i] = 0

\* the recorded output of print(padded_docs) of the learning listing
C10_Witness ==
    /\ example = "learn"
    /\ tpc = "padded"
    /\ padded_docs = << <<15, 16, 0, 0>>, <<17, 18, 0, 0>>, <<36, 36, 0, 0>>,
                        <<19, 18, 0, 0>>, <<6, 0, 0, 0>>, <<20, 0, 0, 0>>,
                        <<11, 36, 0, 0>>, <<38, 17, 0, 0>>, <<11, 18, 0, 0>>,
                        <<19, 38, 16, 17>> >>

(***************************************************************************)
(* Claims about the documents run (Spec)                                   *)
(***************************************************************************)
\* every input is there: the GloVe file is well formed, the URL answers
OkWorld == [glove |-> "ok", url |-> "ok", keras_json |-> "present"]

OkDisk == [glove |-> "ok", keras_json |-> "present"]

\* the kernel, the run record and the files of document d after its cell c
\* ran from k with the inputs of world w (the run is evaluated once)
AfterCell(d, c, k, w) ==
    CHOOSE o \in {[names |-> r.names, mods |-> r.loaded,
                   last |-> [cell |-> c, world |-> w, executed |-> r.executed,
                             failedAt |-> r.failedAt, error |-> r.error,
                             effects |-> r.effects],
                   disk |-> DiskAfter(k.disk, r.effects)] :
                  r \in {RunResult(Cells(d)[c], k.names, k.mods, w)}} : TRUE

\* what is held of a document: the names and modules of its kernel and the
\* record of its last run
Held(o) == [names |-> o.names, mods |-> o.mods, last |-> o.last]

\* document d executed alone in a fresh kernel on the files dk, its cells
\* once each in document order: the outcomes after 0 .. c cells (element
\* j + 1 holds those after j cells), over the answers of the dataset URL
RECURSIVE Alone(_, _, _)
Alone(d, c, dk) ==
    IF c = 0
    THEN << {[names |-> {}, mods |-> {}, last |-> NoRun, disk |-> dk]} >>
    ELSE CHOOSE t \in
            {Append(p, UNION {{AfterCell(d, c, k, w) :
                                  w \in {x \in Worlds(Cells(d)[c]) :
                                            FindsOn(x, Cells(d)[c], k.disk)}} :
                              k \in p[c]}) :
             p \in {Alone(d, c - 1, dk)}} : TRUE

\* <<dk, d, c, h>>: document d, executed alone on the files dk, can hold h
\* after its first c cells
AloneOf(d, dk) ==
    UNION {UNION {{<<dk, d, c - 1, Held(o)>> : o \in t[c]} : c \in DOMAIN t} :
           t \in {Alone(d, Len(Cells(d)), dk)}}

AloneOutcomes == UNION {AloneOf(x[2], x[1]) : x \in Disks \X Docs}

\* the same with every input there
RECURSIVE AloneAllInputs(_, _)
AloneAllInputs(d, c) ==
    IF c = 0 THEN [names |-> {}, mods |-> {}, last |-> NoRun, disk |-> OkDisk]
    ELSE AfterCell(d, c, AloneAllInputs(d, c - 1), OkWorld)

\* what the session holds of document d
Outcome(d) ==
    [names |-> ns[KernelOf(d)], mods |-> loaded[KernelOf(d)], last |-> lastRun[d]]

Stdout(r) == {e.target : e \in {x \in r.effects : x.kind = "stdout"}}

\* C4 (as stated): when the cells of a document are executed once each in
\* document order and every input is there, every cell completes: no cell
\* raises, each runs to its last statement, and so the document reaches its
\* last print/table step.
C4_RunsEndToEnd ==
    \A d \in opened :
        (nextCell[d] > 1 /\ Outcome(d) = Held(AloneAllInputs(d, nextCell[d] - 1))) =>
            /\ lastRun[d].error = ""
            /\ lastRun[d].executed = DOMAIN Cells(d)[lastRun[d].cell]

\* C5: nothing catches a failure.  A cell that raises stops at the raising
\* statement: exactly the statements before it have executed.  When the GloVe
\* file is missing the cell does not get past open (FileNotFoundError), when
\* a line of it cannot be split into a word and float coefficients not past
\* the reading loop (IndexError from values[0] on an empty line, ValueError
\* from asarray on a coefficient that is no number; likewise
\* UnicodeDecodeError when the file cannot be decoded), when a training
\* word's line has a number of coefficients that no row takes not past the
\* loop that fills the weight matrix (ValueError), and no accuracy is
\* printed; when the dataset URL fails the cell does not get past read_csv
\* (URLError) and no mean is printed.
C5_FailuresPropagate ==
    \A d \in opened :
        LET r    == lastRun[d]
            cell == Cells(d)[r.cell]
            StopsAt(op, err) ==
                /\ r.error \in {err, "NameError"}
                /\ r.failedAt <= OpIndex(cell, op)
                /\ r.error = err => r.failedAt = OpIndex(cell, op)
        IN  r.cell # 0 =>
              /\ r.error # "" =>
                    /\ r.failedAt \in 0..Len(cell)
                    /\ r.executed = 1..(r.failedAt - 1)
              /\ r.error = "" => r.executed = DOMAIN cell
              /\ (HasOp(cell, "open") /\ r.world.glove = "missing") =>
                    /\ StopsAt("open", "FileNotFoundError")
                    /\ "accuracy" \notin Stdout(r)
              /\ (HasOp(cell, "readlines")
                    /\ r.world.glove \in {"blank_first", "blank_later"}) =>
                    /\ StopsAt("readlines", "IndexError")
                    /\ "accuracy" \notin Stdout(r)
              /\ (HasOp(cell, "readlines")
                    /\ r.world.glove \in {"badfloat_first", "badfloat_later"}) =>
                    /\ StopsAt("readlines", "ValueError")
                    /\ "accuracy" \notin Stdout(r)
              /\ (HasOp(cell, "readlines")
                    /\ r.world.glove \in {"undecodable_first", "undecodable_later"}) =>
                    /\ StopsAt("readlines", "UnicodeDecodeError")
                    /\ "accuracy" \notin Stdout(r)
              /\ (HasOp(cell, "items") /\ r.world.glove = "wrong_width") =>
                    /\ StopsAt("items", "ValueError")
                    /\ "accuracy" \notin Stdout(r)
              /\ (HasOp(cell, "read_csv") /\ r.world.url = "unreachable") =>
                    /\ StopsAt("read_csv", "URLError")
                    /\ "mean" \notin Stdout(r)

C5_Witness ==
    /\ {"embedding", "pipelines"} \subseteq opened
    /\ lastRun["embedding"].cell = Len(Cells("embedding"))
    /\ lastRun["embedding"].world.glove = "missing"
    /\ lastRun["embedding"].error = "FileNotFoundError"
    /\ lastRun["embedding"].executed # {}
    /\ lastRun["pipelines"].cell = 1
    /\ lastRun["pipelines"].error = "URLError"

\* the files of the disk a document looks at: the files its cells open and
\* the configuration file of keras when a cell imports keras
FilesOf ==
    [d \in Docs |->
        UNION {{Cells(d)[c][i].arg :
                   i \in {j \in DOMAIN Cells(d)[c] :
                             Cells(d)[c][j].op \in {"open", "readlines"}}} :
               c \in DOMAIN Cells(d)}
          \cup (IF \E c \in DOMAIN Cells(d) : ImportsKeras(Cells(d)[c])
                THEN {KerasConfig} ELSE {})]

\* the files of a disk by name
DiskFile(dk) ==
    [f \in {"glove.6B.100d.txt", KerasConfig} |->
        IF f = KerasConfig THEN dk.keras_json ELSE dk.glove]

\* C6: the documents are independent.  The kernels share the files of the
\* disk and nothing else.  Whatever the other documents of the session do
\* and however the runs interleave, document d holds after its first c cells
\* (names, loaded modules, statements executed, error, output and files
\* touched) what it holds when executed alone on the files the session
\* started on; a run of a cell of one document changes nothing held of
\* another document, and changes no file that another document looks at.
C6_DocumentsIndependent ==
    /\ [](\A d \in Docs :
            <<disk0, d, IF d \in opened THEN nextCell[d] - 1 ELSE 0, Outcome(d)>>
                \in AloneOutcomes)
    /\ [][\A d \in Docs :
            (nextCell[d]' # nextCell[d]) =>
                /\ \A e \in Docs \ {d} : Outcome(e)' = Outcome(e)
                /\ \A f \in DOMAIN DiskFile(disk) :
                      (DiskFile(disk')[f] # DiskFile(disk)[f]) =>
                          (\A e \in Docs \ {d} : f \notin FilesOf[e])]_vars

\* the three documents with code have run to their ends, interleaved, in a
\* session in which the first import of keras created its configuration file
C6_Witness ==
    /\ {"pipelines", "recipes", "embedding"} \subseteq opened
    /\ disk0.keras_json = "absent"
    /\ disk.keras_json = "present"
    /\ disk.glove = "ok"
    /\ nextCell["pipelines"] = 3
    /\ lastRun["pipelines"].error = ""
    /\ nextCell["recipes"] = 9
    /\ "iris" \in ns["recipes"]
    /\ lastRun["embedding"].cell = Len(Cells("embedding"))
    /\ "accuracy" \in Stdout(lastRun["embedding"])

\* the inputs of the documents: the dataset URL, the GloVe file, R's iris
Inputs == {"url", "glove.6B.100d.txt", "iris"}

\* C7 (as stated): the only effects of a run outside its kernel are reads
\* of the inputs and text written to stdout.
C7_OnlyReadsAndStdout ==
    \A d \in opened : \A e \in lastRun[d].effects :
        /\ e.kind \in {"read", "stdout"}
        /\ e.kind = "read" => e.target \in Inputs

\* what the documents print, and what nnet prints while it fits
Printed ==
    {"mean", "summary", "table", "nnet trace", "encoded_docs", "padded_docs",
     "loaded", "accuracy"}

\* what the libraries write to stderr when they are loaded
LibraryNotices ==
    {"FutureWarning: Conversion of the second argument of issubdtype",
     "Using TensorFlow backend.",
     "Loading required package: class", "Loaded mda",
     "Loading required package: lattice", "Loading required package: ggplot2",
     "Attaching package: 'ggplot2'",
     "The following object is masked from 'package:kernlab': alpha"}

\* C7 (amended): the effects of a run outside its kernel are reads of the
\* inputs, text written to stdout (what the documents print and the fitting
\* trace of nnet) and what the libraries do when they are loaded: in a run
\* that executes an import or library() statement, notices on stderr (the
\* startup messages of the R packages, the h5py FutureWarning and the
\* backend notice of keras) and, by the first import of keras, a read of
\* its configuration file or, when that file is not there, its creation.
\* No statement of a document creates, writes, truncates or deletes a file:
\* every open is for reading, and the GloVe file is only read.
C7_OnlyReadsAndOutput ==
    \A d \in opened :
        LET r    == lastRun[d]
            cell == Cells(d)[r.cell]
            Loads == {i \in r.executed : cell[i].op \in {"import", "attach"}}
        IN  /\ \A e \in r.effects :
                /\ e.kind \in {"read", "stdout", "stderr", "write"}
                /\ e.kind = "read" => e.target \in Inputs \cup {KerasConfig}
                /\ e.kind = "stdout" => e.target \in Printed
                /\ e.kind = "stderr" => (e.target \in LibraryNotices /\ Loads # {})
                /\ e.kind = "write" =>
                      /\ e.target = KerasConfig
                      /\ r.world.keras_json = "absent"
                /\ e.target = KerasConfig =>
                      \E i \in Loads : cell[i].op = "import" /\ cell[i].arg = "keras"
                /\ e.target = "glove.6B.100d.txt" => e.kind = "read"
            /\ r.cell # 0 =>
                  \A i \in r.executed : cell[i].op = "open" => cell[i].mode = "r"

\* the session has seen notices on stderr from R packages and from keras,
\* the creation of the configuration file of keras and a read of the URL
C7_Witness ==
    /\ {"pipelines", "recipes", "embedding"} \subseteq opened
    /\ lastRun["recipes"].cell = 7
    /\ [kind |-> "stderr",
        target |-> "The following object is masked from 'package:kernlab': alpha"]
          \in lastRun["recipes"].effects
    /\ lastRun["embedding"].cell = 7
    /\ [kind |-> "stderr", target |-> "Using TensorFlow backend."]
          \in lastRun["embedding"].effects
    /\ [kind |-> "write", target |-> KerasConfig] \in lastRun["embedding"].effects
    /\ "accuracy" \in Stdout(lastRun["embedding"])
    /\ lastRun["pipelines"].cell = 1
    /\ [kind |-> "read", target |-> "url"] \in lastRun["pipelines"].effects

(***************************************************************************)
(* Claims about the pre-trained GloVe example (SpecGlove)                  *)
(***************************************************************************)
\* C11: once the weight matrix is built it has vocab_size rows (0 ..
\* vocab_size - 1) of 100 columns; for every (word, i) of word_index row i
\* is embeddings_index[word] when the word is in the dictionary loaded from
\* the GloVe file and all zeros otherwise; every other row, row 0 (the
\* padding index) among them, is all zeros.
C11_OneEmbeddingPerWord ==
    gpc \notin {"idle", "start", "loaded"} =>
        /\ DOMAIN embedding_matrix = 0 .. (vocab_size - 1)
        /\ Cardinality(DOMAIN embedding_matrix) = vocab_size
        /\ \A r \in DOMAIN embedding_matrix :
              /\ DOMAIN embedding_matrix[r] = 1 .. 100
              /\ (\A w \in DOMAIN word_index : word_index[w] # r) =>
                    embedding_matrix[r] = [j \in 1 .. 100 |-> 0]
        /\ \A w \in DOMAIN word_index :
              embedding_matrix[word_index[w]] =
                  IF w \in DOMAIN embeddings_index
                  THEN embeddings_index[w]
                  ELSE [j \in 1 .. 100 |-> 0]
        /\ embedding_matrix[0] = [j \in 1 .. 100 |-> 0]

\* the file holds "work" twice and a word of no document: the row of
\* "work" holds the coefficients of its last line, the other rows are zeros
C11_Witness ==
    /\ gpc = "matrix"
    /\ Len(glove) = 2
    /\ glove[1] # glove[2]
    /\ DOMAIN embeddings_index = {"work"}
    /\ vocab_size = 15
    /\ embedding_matrix[word_index["work"]] = asarray(Tail(SplitLine(glove[2])))
    /\ embedding_matrix[word_index["work"]][1] # 0
    /\ embedding_matrix[word_index["good"]][1] = 0

\* the parameters of the layers the optimizer updates / leaves alone
TrainableParams ==
    SumSeq([l \in DOMAIN model |-> IF model[l].trainable THEN CountParams(model[l]) ELSE 0])

NonTrainableParams ==
    SumSeq([l \in DOMAIN model |-> IF model[l].trainable THEN 0 ELSE CountParams(model[l])])

\* C12: with the Embedding layer created with weights=[embedding_matrix]
\* and trainable=False, its weights equal embedding_matrix entry for entry
\* from the definition of the model on, through the 50 epochs of model.fit
\* and model.evaluate; the model has 1500 parameters that are not trained
\* (the Embedding's) and 401 that are (the Dense layer's), and no step
\* changes a layer other than the Dense layer.
C12_EmbeddingNotTrained ==
    /\ [](gpc \in {"defined", "fitted", "evaluated"} =>
            /\ model[1].name = "embedding"
            /\ model[1].weights[1].value = embedding_matrix
            /\ CountParams(model[1]) = 1500
            /\ NonTrainableParams = 1500
            /\ CountParams(model[3]) = 401
            /\ TrainableParams = 401
            /\ epoch <= 50
            /\ gpc \in {"fitted", "evaluated"} <=> epoch = 50)
    /\ [][(gpc \in {"defined", "fitted"}) =>
            (\A l \in DOMAIN model :
                (model'[l] # model[l] => model[l].name = "dense"))]_vars

\* the model was fitted for 50 epochs and evaluated, the Dense bias and
\* kernel have left their initial values, and the Embedding still holds
\* the GloVe row
C12_Witness ==
    /\ gpc = "evaluated"
    /\ epoch = 50
    /\ model[3].weights[2].value[1] # 0
    /\ model[3].weights[1].value[400][1] \notin InitialKernels
    /\ embedding_matrix[word_index["work"]][1] # 0
    /\ model[1].weights[1].value[word_index["work"]] = embeddings_index["work"]

====
